---- MODULE Spec2Model ----
(***************************************************************************)
(* Model of FileProcessor (src/file_processor.py): one run of              *)
(* process_files over an accommodation schedule (column D) and an          *)
(* architect catalog (columns A and B).                                    *)
(*                                                                         *)
(* Text is a sequence of one-character strings, so that strip, lower,      *)
(* rsplit and pattern search are computed character by character.  A       *)
(* missing spreadsheet cell (pandas NaN) is the value NaN below.           *)
(***************************************************************************)
EXTENDS Integers, Sequences, FiniteSets, TLC

VARIABLES
    pc,                \* position of process_files
    load_ok,           \* input: whether pd.read_excel succeeds on both files
    accommodation_df,  \* input: [has_col_d, col_d]: column D cells, top to bottom
    architect_df,      \* input: rows [filename, title] (columns A and B)
    flat_refs,         \* local of process_files
    matches,           \* local of process_files
    next_match,        \* position of the `for match in matches` loop
    stats,             \* self.stats
    detailed_results,  \* self.detailed_results
    processed_dirs,    \* directories existing under self.processed_path
    processed_files,   \* files under self.processed_path: path -> content
    copy_calls,        \* history: the calls of shutil.copy2, [match, outcome]
    report,            \* outcome of generate_detailed_report, "none" before it
    summary_by_ref,    \* sheet "Summary by Flat Ref" of the written report
    naming,            \* one call of generate_new_filename: arguments and result
    result             \* return value of process_files, "none" before it returns

vars == << pc, load_ok, accommodation_df, architect_df, flat_refs, matches,
           next_match, stats, detailed_results, processed_dirs,
           processed_files, copy_calls, report, summary_by_ref, naming, result >>

----------------------------------------------------------------------------
(* Bounds of the model *)

\* rows of the two spreadsheets together (column D cells plus catalog rows)
MaxRows == 3

\* characters of a key or a filename handed to generate_new_filename
MaxNameLen == 3

----------------------------------------------------------------------------
(* Text *)

NaN == << "NaN" >>

UpperChars == << "A", "B", "C", "D", "E", "F", "G", "H", "I", "J", "K", "L", "M",
                 "N", "O", "P", "Q", "R", "S", "T", "U", "V", "W", "X", "Y", "Z" >>
LowerChars == << "a", "b", "c", "d", "e", "f", "g", "h", "i", "j", "k", "l", "m",
                 "n", "o", "p", "q", "r", "s", "t", "u", "v", "w", "x", "y", "z" >>

\* str.lower() on one character
LowerChar(c) ==
    IF \E i \in 1..Len(UpperChars) : UpperChars[i] = c
    THEN LowerChars[CHOOSE i \in 1..Len(UpperChars) : UpperChars[i] = c]
    ELSE c

\* str.lower()
Lower(s) == [i \in 1..Len(s) |-> LowerChar(s[i])]

\* str.isspace() on one character
IsSpace(c) == c \in {" ", "\t"}

\* str.strip()
Strip(s) ==
    LET keep == {i \in 1..Len(s) : ~IsSpace(s[i])}
    IN  IF keep = {} THEN << >>
        ELSE LET lo == CHOOSE i \in keep : \A j \in keep : i <= j
                 hi == CHOOSE i \in keep : \A j \in keep : j <= i
             IN  SubSeq(s, lo, hi)

\* str.startswith(p)
StartsWith(s, p) == Len(s) >= Len(p) /\ SubSeq(s, 1, Len(p)) = p

\* str.endswith(p)
EndsWith(s, p) == Len(s) >= Len(p) /\ SubSeq(s, Len(s) - Len(p) + 1, Len(s)) = p

\* Python ==; NaN compares unequal to everything, itself included
PyEq(a, b) == a # NaN /\ b # NaN /\ a = b

----------------------------------------------------------------------------
(* Series.str.contains(pat, case=False, na=False): pat is compiled as a      *)
(* regular expression with re.IGNORECASE.  Over the characters of the model *)
(* the only pattern operators are "." (any character) and "(" (opens a      *)
(* group; no ")" occurs, so the pattern does not compile).                  *)

RegexCompileError(pat) == \E i \in 1..Len(pat) : pat[i] = "("

RegexCharMatches(p, c) == p = "." \/ LowerChar(p) = LowerChar(c)

RegexMatchAt(pat, text, at) ==
    /\ at + Len(pat) - 1 <= Len(text)
    /\ \A k \in 1..Len(pat) : RegexCharMatches(pat[k], text[at + k - 1])

StrContains(text, pat) ==
    \E at \in 1..(Len(text) + 1) : RegexMatchAt(pat, text, at)

----------------------------------------------------------------------------
(* get_flat_references *)

\* Series.dropna()
DropNa(cells) == SelectSeq(cells, LAMBDA c : c # NaN)

\* Series.unique(): first occurrences, in order
RECURSIVE Unique(_)
Unique(cells) ==
    IF cells = << >> THEN << >>
    ELSE LET init == Unique(SubSeq(cells, 1, Len(cells) - 1))
             last == cells[Len(cells)]
         IN  IF \E i \in 1..Len(init) : init[i] = last THEN init
             ELSE Append(init, last)

HeaderLabel == << "F", "l", "a", "t", " ", "/", " ", "H", "o", "u", "s", "e", " ", "R", "e", "f" >>
FlatPrefix == << "F", "l", "a", "t" >>

\* the filter with a prefix test that ignores letter case
KeepRef_AnyCaseFlat(ref_str) ==
    /\ ref_str # << >>
    /\ ref_str # HeaderLabel
    /\ ~StartsWith(Lower(ref_str), Lower(FlatPrefix))

\* the filter of the loop body: ref_str is kept
KeepRef(ref_str) ==
    /\ ref_str # << >>
    /\ ref_str # HeaderLabel
    /\ ~StartsWith(ref_str, FlatPrefix)

\* the loop over flat_refs_raw
RECURSIVE FilterRefs(_)
FilterRefs(raw) ==
    IF raw = << >> THEN << >>
    ELSE LET ref_str == Strip(raw[1])
             rest == FilterRefs(Tail(raw))
         IN  IF KeepRef(ref_str) THEN << ref_str >> \o rest ELSE rest

\* the value get_flat_references returns for the loaded schedule
get_flat_references(df) ==
    IF ~df.has_col_d THEN << >>    \* iloc[:, 3] raises IndexError: except branch
    ELSE FilterRefs(Unique(DropNa(df.col_d)))

----------------------------------------------------------------------------
(* find_matching_sections *)

SectionsWord == << "S", "e", "c", "t", "i", "o", "n", "s" >>
SectionsPrefix == << "S", "e", "c", "t", "i", "o", "n", "s", " ", "-", " " >>

\* target_pattern = f"Sections - {flat_ref}"
target_pattern(flat_ref) == SectionsPrefix \o flat_ref

\* mask[mask].index: the positions (1-based here) of the rows whose title
\* satisfies str.contains(pat, case=False, na=False), in row order
RECURSIVE RowsContaining(_, _, _)
RowsContaining(df, pat, from) ==
    IF from > Len(df) THEN << >>
    ELSE IF StrContains(df[from].title, pat)
         THEN << from >> \o RowsContaining(df, pat, from + 1)
         ELSE RowsContaining(df, pat, from + 1)

\* the loop that fills all_section_files
RECURSIVE SectionFiles(_, _)
SectionFiles(df, rows) ==
    IF rows = << >> THEN << >>
    ELSE << [filename |-> df[rows[1]].filename,
             title |-> df[rows[1]].title,
             matched |-> FALSE] >> \o SectionFiles(df, Tail(rows))

\* "Mark this section file as matched": the first entry with an equal
\* filename and title, then break
MarkMatched(section_files, filename, title) ==
    LET hits == {j \in 1..Len(section_files) :
                    /\ PyEq(section_files[j].filename, filename)
                    /\ section_files[j].title = title}
    IN  IF hits = {} THEN section_files
        ELSE LET first == CHOOSE j \in hits : \A k \in hits : j <= k
             IN  [section_files EXCEPT ![first].matched = TRUE]

\* the body of `for idx in matching_rows[matching_rows].index`
AddMatch(acc, flat_ref, df, idx) ==
    LET filename == df[idx].filename
        title == df[idx].title
        match_info == [flat_ref |-> flat_ref, title |-> title,
                       filename |-> filename, row_index |-> idx - 1]
    IN  [acc EXCEPT
            !.matches = Append(@, match_info),
            !.detailed_results.all_section_files = MarkMatched(@, filename, title),
            !.stats.matched = @ + 1]

RECURSIVE AddMatches(_, _, _, _)
AddMatches(acc, flat_ref, df, rows) ==
    IF rows = << >> THEN acc
    ELSE AddMatches(AddMatch(acc, flat_ref, df, rows[1]), flat_ref, df, Tail(rows))

NoMatchReason == "No matching section found in architect spreadsheet"

\* the body of `for flat_ref in flat_refs`; acc.raised records that
\* str.contains raised (the pattern does not compile)
KeyStep(acc, flat_ref, df) ==
    LET counted == [acc EXCEPT !.stats.processed = @ + 1]
        pat == target_pattern(flat_ref)
        rows == RowsContaining(df, pat, 1)
    IN  IF RegexCompileError(pat) THEN [counted EXCEPT !.raised = TRUE]
        ELSE IF rows # << >> THEN AddMatches(counted, flat_ref, df, rows)
        ELSE [counted EXCEPT
                !.stats.not_found = @ + 1,
                !.detailed_results.no_matches_found =
                    Append(@, [flat_ref |-> flat_ref, reason |-> NoMatchReason])]

RECURSIVE KeyLoop(_, _, _)
KeyLoop(acc, refs, df) ==
    IF refs = << >> \/ acc.raised THEN acc
    ELSE KeyLoop(KeyStep(acc, refs[1], df), Tail(refs), df)

\* "Find unused section files"
UnusedSectionFiles(section_files) == SelectSeq(section_files, LAMBDA f : ~f.matched)

\* find_matching_sections(flat_refs): the returned list with the stats and
\* detailed_results it leaves behind
find_matching_sections(refs, df, st, dr) ==
    LET dr1 == [dr EXCEPT
                   !.all_flat_refs = refs,
                   !.all_section_files =
                       @ \o SectionFiles(df, RowsContaining(df, SectionsWord, 1))]
        loop == KeyLoop([matches |-> << >>, stats |-> st, detailed_results |-> dr1,
                         raised |-> FALSE], refs, df)
    IN  IF loop.raised
        THEN \* except branch: the matches found so far are dropped
             [matches |-> << >>, stats |-> loop.stats,
              detailed_results |-> loop.detailed_results]
        ELSE [matches |-> loop.matches, stats |-> loop.stats,
              detailed_results |->
                  [loop.detailed_results EXCEPT
                      !.unused_section_files =
                          @ \o UnusedSectionFiles(loop.detailed_results.all_section_files)]]

----------------------------------------------------------------------------
(* generate_new_filename *)

DrawingType == << "s", "e", "c", "t", "i", "o", "n", "s" >>
PdfExt == << ".", "p", "d", "f" >>

\* str.replace(" ", "")
RemoveSpaces(s) == SelectSeq(s, LAMBDA c : c # " ")

HasDot(s) == \E i \in 1..Len(s) : s[i] = "."
LastDot(s) == CHOOSE i \in 1..Len(s) : s[i] = "." /\ \A j \in (i + 1)..Len(s) : s[j] # "."

\* generate_new_filename without the default extension
generate_new_filename_NoDefaultExt(original_filename, flat_ref) ==
    DrawingType \o << "_" >> \o RemoveSpaces(flat_ref) \o << "_" >> \o original_filename

generate_new_filename(original_filename, flat_ref) ==
    LET house_type == RemoveSpaces(flat_ref)
        orig_name == IF HasDot(original_filename)
                     THEN SubSeq(original_filename, 1, LastDot(original_filename) - 1)
                     ELSE original_filename
        file_ext == IF HasDot(original_filename)
                    THEN SubSeq(original_filename, LastDot(original_filename),
                                Len(original_filename))
                    ELSE PdfExt
    IN  DrawingType \o << "_" >> \o house_type \o << "_" >> \o orig_name \o file_ext

----------------------------------------------------------------------------
(* copy_file *)

\* source_filename_with_ext
WithPdfExt(source_filename) ==
    IF ~EndsWith(Lower(source_filename), PdfExt)
    THEN source_filename \o PdfExt
    ELSE source_filename

ArchitectPath(name) == << "architect", name >>

\* output_path = self.processed_path / flat_ref, as path components.  No key
\* of the model holds "/", so a key is one component; pathlib drops the
\* component ".", so key "." names processed_path itself
OutputDir(flat_ref) ==
    IF flat_ref = << "." >> THEN << "processed" >> ELSE << "processed", flat_ref >>

\* the directories under processed_path that
\* output_path.mkdir(parents=True, exist_ok=True) makes exist
CreatedDirs(flat_ref) == IF flat_ref = << "." >> THEN {} ELSE {flat_ref}

\* dest_file = destination_path / new_filename
ProcessedPath(flat_ref, name) == OutputDir(flat_ref) \o << name >>
UnknownPath == << "Unknown" >>

\* shutil.copy2(source_file, dest_file) opens the destination for writing
\* and streams the source into it: the file under the final name is
\* replaced by what was written
WriteFile(files, dest, source, complete) ==
    {f \in files : f.path # dest}
        \cup {[path |-> dest, source |-> source, complete |-> complete]}

\* the outcomes of the copy primitive: copy2 is copyfile (the data) followed
\* by copystat (the metadata); it raises before anything is written, while
\* the data is written, or in copystat after all the data is written
CopyOutcomes == {"copied", "error_before_write", "error_mid_write",
                 "error_after_complete_write"}

\* the block "if not source_file.exists()"
RecordFileNotFound(st, dr, match_info, source_filename) ==
    [stats |-> [st EXCEPT !.copy_errors = @ + 1],
     detailed_results |->
        [dr EXCEPT !.file_not_found =
            Append(@, [flat_ref |-> match_info.flat_ref,
                       title |-> match_info.title,
                       filename |-> source_filename,
                       expected_path |-> ArchitectPath(WithPdfExt(source_filename)),
                       reason |-> "File not found in architect directory"])]]

\* the except branch of copy_file with the counter left alone
RecordCopyError_NoCount(st, dr, match_info, source_filename, source_path, error) ==
    [stats |-> st,
     detailed_results |->
        [dr EXCEPT !.copy_errors =
            Append(@, [flat_ref |-> match_info.flat_ref,
                       title |-> match_info.title,
                       filename |-> source_filename,
                       source_path |-> source_path,
                       error |-> error])]]

\* the except branch of copy_file
RecordCopyError(st, dr, match_info, source_filename, source_path, error) ==
    [stats |-> [st EXCEPT !.copy_errors = @ + 1],
     detailed_results |->
        [dr EXCEPT !.copy_errors =
            Append(@, [flat_ref |-> match_info.flat_ref,
                       title |-> match_info.title,
                       filename |-> source_filename,
                       source_path |-> source_path,
                       error |-> error])]]

\* "Track successful copy"
RecordSuccess(st, dr, match_info, source_filename, flat_ref) ==
    LET with_ext == WithPdfExt(source_filename)
        new_filename == generate_new_filename(with_ext, match_info.flat_ref)
    IN  [stats |-> st,
         detailed_results |->
            [dr EXCEPT !.successful_matches =
                Append(@, [flat_ref |-> match_info.flat_ref,
                           title |-> match_info.title,
                           original_filename |-> with_ext,
                           new_filename |-> new_filename,
                           source_path |-> ArchitectPath(with_ext),
                           destination_path |-> ProcessedPath(flat_ref, new_filename),
                           destination_folder |-> OutputDir(flat_ref)])]]

----------------------------------------------------------------------------
(* The inputs of a run *)

\* column D cells: empty cell, "a", " a", "A", ".", "(", "Flat", "flat", " ",
\* "Flat / House Ref"
RefCells == { NaN, << "a" >>, << " ", "a" >>, << "A" >>, << "." >>, << "(" >>,
              FlatPrefix, << "f", "l", "a", "t" >>, << " " >>, HeaderLabel }

\* catalog rows (column A, column B): ("f", "Sections - a"),
\* ("g.pdf", "Sections - a"), (empty cell, "Sections - a"), ("f", "SECTIONS"),
\* ("f", "Plans - a")
CatalogRows ==
    { [filename |-> << "f" >>, title |-> SectionsPrefix \o << "a" >>],
      [filename |-> << "g" >> \o PdfExt, title |-> SectionsPrefix \o << "a" >>],
      [filename |-> NaN, title |-> SectionsPrefix \o << "a" >>],
      [filename |-> << "f" >>, title |-> << "S", "E", "C", "T", "I", "O", "N", "S" >>],
      [filename |-> << "f" >>, title |-> << "P", "l", "a", "n", "s", " ", "-", " ", "a" >>] }

\* FileProcessor.__init__
InitStats == [processed |-> 0, matched |-> 0, not_found |-> 0, copy_errors |-> 0]

InitDetailedResults ==
    [successful_matches |-> << >>, no_matches_found |-> << >>,
     file_not_found |-> << >>, copy_errors |-> << >>,
     unused_section_files |-> << >>, all_flat_refs |-> << >>,
     all_section_files |-> << >>]

\* generate_new_filename not called on its own
NoNaming == [flat_ref |-> << >>, original_filename |-> << >>, new_filename |-> << >>]

Init ==
    /\ pc = "start"
    /\ \/ /\ load_ok = FALSE    \* a file is missing or unreadable: nothing is loaded
          /\ accommodation_df = [has_col_d |-> FALSE, col_d |-> << >>]
          /\ architect_df = << >>
       \/ /\ load_ok = TRUE    \* the schedule has fewer than four columns
          /\ accommodation_df = [has_col_d |-> FALSE, col_d |-> << >>]
          /\ \E r \in 0..1 : architect_df \in [1..r -> CatalogRows]
       \/ /\ load_ok = TRUE
          /\ \E k \in 0..MaxRows :
                /\ \E c \in [1..k -> RefCells] :
                       accommodation_df = [has_col_d |-> TRUE, col_d |-> c]
                /\ \E r \in 0..(MaxRows - k) : architect_df \in [1..r -> CatalogRows]
    /\ flat_refs = << >>
    /\ matches = << >>
    /\ next_match = 1
    /\ stats = InitStats
    /\ detailed_results = InitDetailedResults
    /\ processed_dirs = {}
    /\ processed_files = {}
    /\ copy_calls = << >>
    /\ report = "none"
    /\ summary_by_ref = << >>
    /\ naming = NoNaming
    /\ result = "none"

----------------------------------------------------------------------------
(* process_files, step by step *)

inputs == << load_ok, accommodation_df, architect_df >>

\* "if not self.load_spreadsheets(): return False"
LoadSpreadsheets ==
    /\ pc = "start"
    /\ IF load_ok
       THEN pc' = "loaded" /\ result' = result
       ELSE pc' = "returned" /\ result' = "False"
    /\ UNCHANGED << inputs, naming, flat_refs, matches, next_match, stats, detailed_results,
                    processed_dirs, processed_files, copy_calls, report,
                    summary_by_ref >>

\* get_flat_references without the "if not flat_refs: return False" after it
GetFlatReferences_NoEarlyReturn ==
    /\ pc = "loaded"
    /\ flat_refs' = get_flat_references(accommodation_df)
    /\ pc' = "extracted"
    /\ UNCHANGED << inputs, naming, matches, next_match, stats, detailed_results,
                    processed_dirs, processed_files, copy_calls, report,
                    summary_by_ref, result >>

\* "flat_refs = self.get_flat_references(); if not flat_refs: return False"
GetFlatReferences ==
    /\ pc = "loaded"
    /\ flat_refs' = get_flat_references(accommodation_df)
    /\ IF flat_refs' = << >>
       THEN pc' = "returned" /\ result' = "False"
       ELSE pc' = "extracted" /\ result' = result
    /\ UNCHANGED << inputs, naming, matches, next_match, stats, detailed_results,
                    processed_dirs, processed_files, copy_calls, report,
                    summary_by_ref >>

\* "matches = self.find_matching_sections(flat_refs); if not matches: return True"
FindMatchingSections ==
    /\ pc = "extracted"
    /\ LET r == find_matching_sections(flat_refs, architect_df, stats, detailed_results)
       IN  /\ matches' = r.matches
           /\ stats' = r.stats
           /\ detailed_results' = r.detailed_results
    /\ IF matches' = << >>
       THEN pc' = "returned" /\ result' = "True"
       ELSE pc' = "copying" /\ result' = result
    /\ UNCHANGED << inputs, naming, flat_refs, next_match, processed_dirs, processed_files,
                    copy_calls, report, summary_by_ref >>

\* create_output_structure raised in mkdir and returned None: "continue"
MkdirFails ==
    /\ pc = "copying" /\ next_match <= Len(matches)
    /\ next_match' = next_match + 1
    /\ UNCHANGED << inputs, naming, pc, flat_refs, matches, stats, detailed_results,
                    processed_dirs, processed_files, copy_calls, report,
                    summary_by_ref, result >>

\* copy_file when source_filename is an empty cell: a float has no lower(),
\* the except branch runs before source_file is bound
CopyBadFilename ==
    /\ pc = "copying" /\ next_match <= Len(matches)
    /\ LET match == matches[next_match]
           r == RecordCopyError(stats, detailed_results, match, match.filename,
                                UnknownPath, "AttributeError")
       IN  /\ match.filename = NaN
           /\ processed_dirs' = processed_dirs \cup CreatedDirs(match.flat_ref)
           /\ stats' = r.stats
           /\ detailed_results' = r.detailed_results
    /\ next_match' = next_match + 1
    /\ UNCHANGED << inputs, naming, pc, flat_refs, matches, processed_files, copy_calls,
                    report, summary_by_ref, result >>

\* copy_file when source_file.exists() is False
CopySourceMissing ==
    /\ pc = "copying" /\ next_match <= Len(matches)
    /\ LET match == matches[next_match]
           r == RecordFileNotFound(stats, detailed_results, match, match.filename)
       IN  /\ match.filename # NaN
           /\ processed_dirs' = processed_dirs \cup CreatedDirs(match.flat_ref)
           /\ stats' = r.stats
           /\ detailed_results' = r.detailed_results
    /\ next_match' = next_match + 1
    /\ UNCHANGED << inputs, naming, pc, flat_refs, matches, processed_files, copy_calls,
                    report, summary_by_ref, result >>

\* copy_file when source_file.exists() raises (the architect directory cannot
\* be searched): the except branch runs with source_file bound and
\* shutil.copy2 is not called
CopyExistsRaises ==
    /\ pc = "copying" /\ next_match <= Len(matches)
    /\ LET match == matches[next_match]
           r == RecordCopyError(stats, detailed_results, match, match.filename,
                                ArchitectPath(WithPdfExt(match.filename)), "OSError")
       IN  /\ match.filename # NaN
           /\ processed_dirs' = processed_dirs \cup CreatedDirs(match.flat_ref)
           /\ stats' = r.stats
           /\ detailed_results' = r.detailed_results
    /\ next_match' = next_match + 1
    /\ UNCHANGED << inputs, naming, pc, flat_refs, matches, processed_files, copy_calls,
                    report, summary_by_ref, result >>

\* copy_file when the source exists: shutil.copy2 and its outcome
CopyExisting(outcome) ==
    /\ pc = "copying" /\ next_match <= Len(matches)
    /\ LET match == matches[next_match]
           with_ext == WithPdfExt(match.filename)
           dest == ProcessedPath(match.flat_ref,
                                 generate_new_filename(with_ext, match.flat_ref))
           r == IF outcome = "copied"
                THEN RecordSuccess(stats, detailed_results, match, match.filename,
                                   match.flat_ref)
                ELSE RecordCopyError(stats, detailed_results, match, match.filename,
                                     ArchitectPath(with_ext), "OSError")
       IN  /\ match.filename # NaN
           /\ processed_dirs' = processed_dirs \cup CreatedDirs(match.flat_ref)
           /\ processed_files' =
                 IF outcome = "error_before_write" THEN processed_files
                 ELSE WriteFile(processed_files, dest, with_ext,
                                outcome # "error_mid_write")
           /\ copy_calls' = Append(copy_calls, [match |-> next_match, outcome |-> outcome])
           /\ stats' = r.stats
           /\ detailed_results' = r.detailed_results
    /\ next_match' = next_match + 1
    /\ UNCHANGED << inputs, naming, pc, flat_refs, matches, report, summary_by_ref,
                    result >>

\* one iteration of "for match in matches"
ProcessMatch ==
    \/ MkdirFails
    \/ CopyBadFilename
    \/ CopySourceMissing
    \/ CopyExistsRaises
    \/ \E outcome \in CopyOutcomes : CopyExisting(outcome)

\* "9. Processing Summary by Flat Reference": the successful copies of a key
FilesOf(dr, flat_ref) ==
    SelectSeq(dr.successful_matches, LAMBDA item : item.flat_ref = flat_ref)

\* one row of summary_by_ref
SummaryRow(dr, flat_ref) ==
    LET files == FilesOf(dr, flat_ref)
    IN  [flat_ref |-> flat_ref,
         files_copied |-> Len(files),
         status |-> IF files # << >> THEN "SUCCESS" ELSE "NO MATCH",
         output_folder |-> IF files # << >> THEN files[1].destination_folder
                           ELSE << "N/A" >>]

\* the loop over all_flat_refs that builds summary_by_ref
SummaryByRef(dr) ==
    [i \in 1..Len(dr.all_flat_refs) |-> SummaryRow(dr, dr.all_flat_refs[i])]

\* the end of the loop with a generate_detailed_report that clears the counters
GenerateReport_ResetsStats ==
    /\ pc = "copying" /\ next_match > Len(matches)
    /\ \E written \in BOOLEAN :
          /\ report' = IF written THEN "written" ELSE "failed"
          /\ summary_by_ref' = IF written THEN SummaryByRef(detailed_results) ELSE << >>
    /\ pc' = "returned"
    /\ result' = "True"
    /\ stats' = InitStats
    /\ UNCHANGED << inputs, naming, flat_refs, matches, next_match, detailed_results,
                    processed_dirs, processed_files, copy_calls >>

\* the end of the loop: print_statistics, generate_detailed_report, return True;
\* the report is written, or the ExcelWriter raises and nothing is written
GenerateReport ==
    /\ pc = "copying" /\ next_match > Len(matches)
    /\ \E written \in BOOLEAN :
          /\ report' = IF written THEN "written" ELSE "failed"
          /\ summary_by_ref' = IF written THEN SummaryByRef(detailed_results) ELSE << >>
    /\ pc' = "returned"
    /\ result' = "True"
    /\ UNCHANGED << inputs, naming, flat_refs, matches, next_match, stats, detailed_results,
                    processed_dirs, processed_files, copy_calls >>

Next ==
    \/ LoadSpreadsheets
    \/ GetFlatReferences
    \/ FindMatchingSections
    \/ ProcessMatch
    \/ GenerateReport

Spec == Init /\ [][Next]_vars

----------------------------------------------------------------------------
(* generate_new_filename on its own: one call on a key and a filename *)

\* "HT A 3B4P" and "ARC-101.pdf"
ExampleKey == << "H", "T", " ", "A", " ", "3", "B", "4", "P" >>
ExampleFilename == << "A", "R", "C", "-", "1", "0", "1" >> \o PdfExt

\* keys as get_flat_references returns them: trimmed, kept by the filter
NamingKeys ==
    { k \in UNION { [1..n -> {"a", " ", "\t"}] : n \in 1..MaxNameLen } :
        Strip(k) = k /\ KeepRef(k) } \cup { ExampleKey }

NamingFilenames ==
    UNION { [1..n -> {"f", "."}] : n \in 1..MaxNameLen } \cup { ExampleFilename }

InitNaming ==
    /\ pc = "start"
    /\ load_ok = FALSE
    /\ accommodation_df = [has_col_d |-> FALSE, col_d |-> << >>]
    /\ architect_df = << >>
    /\ flat_refs = << >>
    /\ matches = << >>
    /\ next_match = 1
    /\ stats = InitStats
    /\ detailed_results = InitDetailedResults
    /\ processed_dirs = {}
    /\ processed_files = {}
    /\ copy_calls = << >>
    /\ report = "none"
    /\ summary_by_ref = << >>
    /\ \E k \in NamingKeys : \E f \in NamingFilenames :
          naming = [flat_ref |-> k, original_filename |-> f, new_filename |-> << >>]
    /\ result = "none"

\* new_filename = self.generate_new_filename(original_filename, flat_ref)
GenerateNewFilename ==
    /\ naming.new_filename = << >>
    /\ naming' = [naming EXCEPT
                     !.new_filename = generate_new_filename(naming.original_filename,
                                                            naming.flat_ref)]
    /\ UNCHANGED << inputs, pc, flat_refs, matches, next_match, stats, detailed_results,
                    processed_dirs, processed_files, copy_calls, report,
                    summary_by_ref, result >>

NextNaming == GenerateNewFilename

SpecNaming == InitNaming /\ [][NextNaming]_vars

----------------------------------------------------------------------------
(* What the claims speak of *)

Range(f) == {f[i] : i \in DOMAIN f}

\* find_matching_sections has been called and has returned
MatcherReturned == pc \in {"copying", "returned"} /\ load_ok /\ flat_refs # << >>

\* get_flat_references has been called and has returned
ExtractorReturned == pc \in {"extracted", "copying", "returned"} /\ load_ok

\* text holds the exact characters of sub, letter case apart
LiteralContains(text, sub) ==
    \E at \in 1..(Len(text) - Len(sub) + 1) :
        Lower(SubSeq(text, at, at + Len(sub) - 1)) = Lower(sub)

\* the catalog rows, in row order, whose title holds "Sections - " + key
RECURSIVE LiteralRows(_, _, _)
LiteralRows(df, key, from) ==
    IF from > Len(df) THEN << >>
    ELSE IF LiteralContains(df[from].title, SectionsPrefix \o key)
         THEN << from >> \o LiteralRows(df, key, from + 1)
         ELSE LiteralRows(df, key, from + 1)

RECURSIVE RecordsFor(_, _, _)
RecordsFor(df, key, rows) ==
    IF rows = << >> THEN << >>
    ELSE << [flat_ref |-> key, title |-> df[rows[1]].title,
             filename |-> df[rows[1]].filename, row_index |-> rows[1] - 1] >>
         \o RecordsFor(df, key, Tail(rows))

\* one MatchRecord per key and literally matching row: key order, then row order
RECURSIVE ExpectedMatches(_, _)
ExpectedMatches(keys, df) ==
    IF keys = << >> THEN << >>
    ELSE RecordsFor(df, keys[1], LiteralRows(df, keys[1], 1))
         \o ExpectedMatches(Tail(keys), df)

\* the keys listed in no_matches_found
UnmatchedKeys == {e.flat_ref : e \in Range(detailed_results.no_matches_found)}

\* the keys for which a MatchRecord was returned
MatchedKeys == {m.flat_ref : m \in Range(matches)}

\* C1: when find_matching_sections returns, the returned list is exactly one
\* MatchRecord per key and catalog row whose title holds "Sections - " + key
\* as a case-insensitive substring, in key order and then row order.
C1_MatchesAreAllLiteralHitsInOrder ==
    MatcherReturned => matches = ExpectedMatches(flat_refs, architect_df)

\* C2: a title matches a key if and only if it holds the exact characters
\* "Sections - " + key (letter case apart), whatever characters the key has.
C2_MatchingIsLiteralContainment ==
    MatcherReturned =>
        \A k \in 1..Len(flat_refs) : \A i \in 1..Len(architect_df) :
            (\E m \in Range(matches) :
                m.flat_ref = flat_refs[k] /\ m.row_index = i - 1)
            <=> LiteralContains(architect_df[i].title, target_pattern(flat_refs[k]))

\* position in column D of the first cell whose trimmed text is key
FirstOccurrence(key) ==
    CHOOSE i \in 1..Len(accommodation_df.col_d) :
        /\ accommodation_df.col_d[i] # NaN
        /\ Strip(accommodation_df.col_d[i]) = key
        /\ \A j \in 1..(i - 1) :
              accommodation_df.col_d[j] = NaN \/ Strip(accommodation_df.col_d[j]) # key

\* C3: the list get_flat_references returns holds no two equal keys, and the
\* keys stand in the order of their first occurrence in column D.
C3_KeysUniqueInFirstSeenOrder ==
    ExtractorReturned =>
        \A i, j \in 1..Len(flat_refs) :
            i < j => /\ flat_refs[i] # flat_refs[j]
                     /\ FirstOccurrence(flat_refs[i]) < FirstOccurrence(flat_refs[j])

\* C4: a run in which both tables load and at least one key is extracted
\* has generated its report by the time process_files returns.
C4_ReportUnlessLoadFailsOrNoKeys ==
    (pc = "returned" /\ load_ok /\ flat_refs # << >>) => report # "none"

\* C5: a step that records a SourceFileMissing outcome creates no directory
\* under the output root and writes no file.
C5_MissingSourceWritesNothing ==
    [][Len(detailed_results'.file_not_found) > Len(detailed_results.file_not_found)
          => /\ processed_dirs' = processed_dirs
             /\ processed_files' = processed_files]_vars

\* C6: no file under the output root is ever partially written: a file
\* present under its final name holds the complete source.
C6_CopyIsAllOrNothing ==
    \A f \in processed_files : f.complete

\* C7: when find_matching_sections returns, every input key is either listed
\* in no_matches_found or has a MatchRecord, never both and never neither.
C7_UnmatchedKeysAreExactlyTheKeysWithoutMatch ==
    MatcherReturned =>
        \A k \in 1..Len(flat_refs) :
            (flat_refs[k] \in UnmatchedKeys) <=> (flat_refs[k] \notin MatchedKeys)

\* C8: when find_matching_sections returns, every catalog row whose title
\* holds "Sections" and that no MatchRecord selects is listed in
\* unused_section_files.
C8_UnselectedSectionRowsAreListedUnused ==
    MatcherReturned =>
        \A i \in 1..Len(architect_df) :
            ( /\ LiteralContains(architect_df[i].title, SectionsWord)
              /\ ~\E m \in Range(matches) : m.row_index = i - 1 )
            => \E u \in Range(detailed_results.unused_section_files) :
                  /\ u.filename = architect_df[i].filename
                  /\ u.title = architect_df[i].title

\* C9: with zero usable keys process_files returns False and has run no
\* matcher, created no directory, copied no file and generated no report;
\* the counters and the outcome lists are as constructed.
C9_NoKeysEndsRunUntouched ==
    (pc = "returned" /\ load_ok /\ flat_refs = << >>) =>
        /\ result = "False"
        /\ matches = << >>
        /\ stats = InitStats
        /\ detailed_results = InitDetailedResults
        /\ processed_dirs = {}
        /\ processed_files = {}
        /\ copy_calls = << >>
        /\ report = "none"

\* a run that ended for want of keys although column D had cells and the
\* catalog had section rows
C9_Witness ==
    /\ pc = "returned" /\ load_ok /\ flat_refs = << >>
    /\ accommodation_df.col_d # << >>
    /\ \E i \in 1..Len(architect_df) :
          LiteralContains(architect_df[i].title, SectionsWord)

\* C10: a step in which shutil.copy2 fails calls it once, appends exactly one
\* record with an error description to copy_errors and nothing to the other
\* outcome lists, adds one to the copy_errors counter and moves on to the next
\* match; a run that started copying returns only after the whole list.
C10_CopyFailureIsRecordedOnceAndRunContinues ==
    [][ /\ ( /\ Len(copy_calls') > Len(copy_calls)
             /\ copy_calls'[Len(copy_calls')].outcome # "copied" )
           => /\ Len(copy_calls') = Len(copy_calls) + 1
              /\ \A c \in Range(copy_calls) : c.match # next_match
              /\ Len(detailed_results'.copy_errors)
                    = Len(detailed_results.copy_errors) + 1
              /\ LET e == detailed_results'.copy_errors[Len(detailed_results'.copy_errors)]
                 IN  /\ e.flat_ref = matches[next_match].flat_ref
                     /\ e.title = matches[next_match].title
                     /\ e.filename = matches[next_match].filename
                     /\ e.error # ""
              /\ SubSeq(detailed_results'.copy_errors, 1,
                        Len(detailed_results.copy_errors)) = detailed_results.copy_errors
              /\ detailed_results'.successful_matches = detailed_results.successful_matches
              /\ detailed_results'.file_not_found = detailed_results.file_not_found
              /\ stats'.copy_errors = stats.copy_errors + 1
              /\ pc' = "copying"
              /\ next_match' = next_match + 1
        /\ (pc = "copying" /\ pc' = "returned") => next_match = Len(matches) + 1
      ]_vars

\* a copy failed and a later match has been processed since
C10_Witness ==
    \E k \in 1..Len(copy_calls) :
        /\ copy_calls[k].outcome # "copied"
        /\ next_match > copy_calls[k].match + 1

\* the characters of s outside the set drop
Without(s, drop) == SelectSeq(s, LAMBDA c : c \notin drop)

\* position of the last dot of s, 0 when s has none
LastDotOrZero(s) ==
    IF \E i \in 1..Len(s) : s[i] = "."
    THEN CHOOSE i \in 1..Len(s) : s[i] = "." /\ \A j \in 1..Len(s) : s[j] = "." => j <= i
    ELSE 0

\* "sections_" + key_text + "_" + base + ext, base and ext the filename split
\* at its last dot, ext ".pdf" when it has none
DerivedName(key_text, filename) ==
    LET d == LastDotOrZero(filename)
        base == IF d = 0 THEN filename ELSE SubSeq(filename, 1, d - 1)
        ext == IF d = 0 THEN << ".", "p", "d", "f" >> ELSE SubSeq(filename, d, Len(filename))
    IN  << "s", "e", "c", "t", "i", "o", "n", "s", "_" >> \o key_text \o << "_" >>
            \o base \o ext

NamingDone == naming.new_filename # << >>

\* C11 as stated: the derived filename is "sections_" + the key without any
\* whitespace character + "_" + base + ext.
C11_NameDropsAllWhitespace ==
    NamingDone =>
        naming.new_filename
            = DerivedName(Without(naming.flat_ref, {" ", "\t"}), naming.original_filename)

\* C11 as amended: the derived filename is "sections_" + the key without its
\* space characters (a tab stays) + "_" + base + ext; "HT A 3B4P" with
\* "ARC-101.pdf" gives "sections_HTA3B4P_ARC-101.pdf".
C11_NameDropsSpaces ==
    NamingDone =>
        /\ naming.new_filename
              = DerivedName(Without(naming.flat_ref, {" "}), naming.original_filename)
        /\ (naming.flat_ref = ExampleKey /\ naming.original_filename = ExampleFilename)
              => naming.new_filename
                    = << "s", "e", "c", "t", "i", "o", "n", "s", "_",
                         "H", "T", "A", "3", "B", "4", "P", "_",
                         "A", "R", "C", "-", "1", "0", "1", ".", "p", "d", "f" >>

\* a name was derived for a key with a space and a filename without a dot
C11_Witness ==
    /\ NamingDone
    /\ \E i \in 1..Len(naming.flat_ref) : naming.flat_ref[i] = " "
    /\ LastDotOrZero(naming.original_filename) = 0

\* s begins with the four characters F, l, a, t
BeginsWithFlat(s) ==
    Len(s) >= 4 /\ s[1] = "F" /\ s[2] = "l" /\ s[3] = "a" /\ s[4] = "t"

\* s has no whitespace at either end
IsTrimmed(s) == s = << >> \/ (s[1] \notin {" ", "\t"} /\ s[Len(s)] \notin {" ", "\t"})

\* C12: every returned key is trimmed, non-empty, not the header label and
\* does not begin with "Flat"; every non-empty cell of column D whose trimmed
\* text is non-empty and does not begin with "Flat" is returned (trimmed).
C12_KeysAreExactlyTheUsableCells ==
    ExtractorReturned =>
        /\ \A i \in 1..Len(flat_refs) :
              /\ IsTrimmed(flat_refs[i])
              /\ flat_refs[i] # << >>
              /\ flat_refs[i] # HeaderLabel
              /\ ~BeginsWithFlat(flat_refs[i])
        /\ \A i \in 1..Len(accommodation_df.col_d) :
              LET cell == accommodation_df.col_d[i]
              IN  (cell # NaN /\ Strip(cell) # << >> /\ ~BeginsWithFlat(Strip(cell)))
                     => \E j \in 1..Len(flat_refs) : flat_refs[j] = Strip(cell)

\* keys were extracted from a column holding "flat", which is returned, next
\* to a cell that begins with "Flat" and a cell that needed trimming
C12_Witness ==
    /\ ExtractorReturned
    /\ << "f", "l", "a", "t" >> \in Range(flat_refs)
    /\ \E i \in 1..Len(accommodation_df.col_d) :
          accommodation_df.col_d[i] # NaN /\ BeginsWithFlat(accommodation_df.col_d[i])
    /\ \E i \in 1..Len(accommodation_df.col_d) :
          accommodation_df.col_d[i] # NaN /\ ~IsTrimmed(accommodation_df.col_d[i])

\* C13: the step that generates the report, written or failed, leaves the
\* counters, the match list, the outcome lists and the output tree as they
\* were, and calls no copy.
C13_ReportLeavesRunStateUnchanged ==
    [][(report = "none" /\ report' # "none")
          => /\ stats' = stats
             /\ detailed_results' = detailed_results
             /\ matches' = matches
             /\ processed_dirs' = processed_dirs
             /\ processed_files' = processed_files
             /\ copy_calls' = copy_calls]_vars

\* the report could not be written after a run that copied a file and
\* counted a copy error
C13_Witness ==
    /\ report = "failed"
    /\ \E f \in processed_files : f.complete
    /\ stats.copy_errors > 0

\* C14: when the run reaches the reporting stage, successful_matches,
\* file_not_found and copy_errors together hold one record per MatchRecord.
C14_EveryMatchHasOneOutcome ==
    report # "none" =>
        Len(detailed_results.successful_matches)
            + Len(detailed_results.file_not_found)
            + Len(detailed_results.copy_errors) = Len(matches)

\* the MatchRecords of the returned list that belong to key
MatchesOf(key) == SelectSeq(matches, LAMBDA m : m.flat_ref = key)

\* C15: the MatchRecords returned for a key are those find_matching_sections
\* returns when it is called with that key alone.
C15_MatchesOfAKeyIgnoreOtherKeys ==
    MatcherReturned =>
        \A k \in 1..Len(flat_refs) :
            MatchesOf(flat_refs[k])
                = find_matching_sections(<< flat_refs[k] >>, architect_df,
                                         InitStats, InitDetailedResults).matches

\* C16: when find_matching_sections returns, processed is the number of input
\* keys, matched the number of MatchRecords returned and not_found the number
\* of unmatched keys; when the copy phase has ended, copy_errors is the number
\* of file_not_found records plus the number of copy_errors records.
C16_CountersAgreeWithRecords ==
    /\ MatcherReturned =>
          /\ stats.processed = Len(flat_refs)
          /\ stats.matched = Len(matches)
          /\ stats.not_found = Len(detailed_results.no_matches_found)
    /\ report # "none" =>
          stats.copy_errors = Len(detailed_results.file_not_found)
                                 + Len(detailed_results.copy_errors)

\* position in all_section_files of the entry made for catalog row `row`
SectionEntryOf(row) ==
    Cardinality({i \in 1..row : LiteralContains(architect_df[i].title, SectionsWord)})

\* C17: when find_matching_sections returns, the section entry of every
\* catalog row that a MatchRecord references has matched = True and is not
\* listed in unused_section_files.
C17_ReferencedRowsAreNotUnused ==
    MatcherReturned =>
        \A m \in Range(matches) :
            LET row == m.row_index + 1
            IN  /\ detailed_results.all_section_files[SectionEntryOf(row)].matched
                /\ ~\E u \in Range(detailed_results.unused_section_files) :
                       /\ u.filename = architect_df[row].filename
                       /\ u.title = architect_df[row].title

\* C18: in the written report's per-key rollup a key has status "NO MATCH"
\* if and only if it is listed in no_matches_found.
C18_NoMatchStatusMeansUnmatchedKey ==
    report = "written" =>
        \A i \in 1..Len(summary_by_ref) :
            (summary_by_ref[i].status = "NO MATCH")
                <=> (summary_by_ref[i].flat_ref \in UnmatchedKeys)

====
